---- MODULE Spec2Model ----
\* The PyPy-STM glue layer (rpython/translator/stm/src_stm/stmgcintf.c): the
\* thread-local transaction state, the nursery budget ("low fill mark"), the
\* perform_transaction retry loop, the callback bridge and the escalation to
\* an inevitable transaction, over an abstract model of the stmgc engine.
EXTENDS Integers, Naturals, Sequences, FiniteSets, TLC

\* ---------------------------------------------------------------- bounds
\* deepest atomic nesting a thread enters (pypy_stm_ready_atomic <= 1 + MaxAtomic)
MaxAtomic == 1
\* aborts one perform_transaction suffers before the engine lets it run
MaxAborts == 1
\* allocations of AllocChunk bytes one transaction makes
MaxAllocs == 1
\* bytes one allocation step of the work takes from the nursery
AllocChunk == 500000
\* retries followed by the budget specification
MaxRetries == 50
\* the fractions k / FractionDen, k in 0 .. MaxFractionNum, given to
\* pypy_stm_set_transaction_length
MaxFractionNum == 40
FractionDen == 4
\* invocations of the callback in one perform_transaction
MaxCalls == 3
\* roots the callback keeps on the shadowstack at a time
MaxRoots == 1

\* ------------------------------------------------------ program constants
LOW_FILL_MARK == 400000
\* stmgc: the size of a segment's nursery, and its first byte
NURSERY_SIZE == 4194304
_stm_nursery_start == 1048576
\* (uintptr_t)-1, read as a long
UNLIMITED == -1
\* the integers of the model are 32 bits wide: a long below LONG_FLOOR is held
\* at LONG_FLOOR (only the product of pypy_stm_setup() is that small)
LONG_FLOOR == 0 - 2000000000
NULL == 0
\* &jmpbuf of the running pypy_stm_perform_transaction
JMPBUF == 1

Threads == {"main", "foreign"}

VARIABLES
    th,                       \* per thread: the thread-locals, the engine's
                              \* segment and the frame of perform_transaction
    pypy_transaction_length,  \* static long pypy_transaction_length
    fraction,                 \* the argument of the last call of
                              \* pypy_stm_set_transaction_length
    stm_ready                 \* stm_setup() has run

vars == <<th, pypy_transaction_length, fraction, stm_ready>>

\* ----------------------------------------------------------- arithmetic
\* C's conversion of a quotient to long: truncation towards zero
TruncDiv(a, b) == IF a >= 0 THEN a \div b ELSE 0 - ((0 - a) \div b)

\* t >> k on a signed long: the arithmetic shift (floor)
Shr(t, k) == t \div (2 ^ k)

\* (long)(LOW_FILL_MARK * fraction), fraction = f[1] / f[2]
ToLong(f) ==
    IF TruncDiv(f[1], f[2]) <= TruncDiv(LONG_FLOOR, LOW_FILL_MARK)
    THEN LONG_FLOOR
    ELSE TruncDiv(LOW_FILL_MARK * f[1], f[2])

\* a < b on uintptr_t, both held as longs: a negative long is a huge unsigned
ULess(a, b) ==
    IF a < 0 THEN (b < 0 /\ a < b) ELSE (b < 0 \/ a < b)

\* ------------------------------------------------------------ the budget
\* pypy_stm_set_transaction_length without the test against the nursery
pypy_stm_set_transaction_length_noclamp(f) == ToLong(f)

\* pypy_stm_set_transaction_length(fraction): the new pypy_transaction_length
pypy_stm_set_transaction_length(f) ==
    LET low_fill_mark == ToLong(f)
    IN  IF low_fill_mark > TruncDiv(NURSERY_SIZE * 3, 4)
        THEN TruncDiv(NURSERY_SIZE * 3, 4)
        ELSE low_fill_mark

\* the limit with "limit += (limit >> 4)"
Limit_grow(v_counter, length, last_abort) ==
    IF v_counter = 0 THEN length ELSE last_abort + Shr(last_abort, 4)

\* the limit _pypy_stm_initialize_nursery_low_fill_mark computes
Limit(v_counter, length, last_abort) ==
    IF v_counter = 0 THEN length ELSE last_abort - Shr(last_abort, 4)

\* _pypy_stm_initialize_nursery_low_fill_mark(v_counter) on thread record s
_pypy_stm_initialize_nursery_low_fill_mark(s, v_counter, length) ==
    [s EXCEPT !.pypy_stm_nursery_low_fill_mark =
        _stm_nursery_start + Limit(v_counter, length, s.last_abort)]

\* t = _stm_nursery_start + (t >> 2)
Quarter_abs(t) == _stm_nursery_start + Shr(t, 2)

\* t = _stm_nursery_start + ((t - _stm_nursery_start) >> 2)
Quarter(t) == _stm_nursery_start + Shr(t - _stm_nursery_start, 2)

\* an assertion of the C code: a failed one ends the thread where it is
Checked(cond, s) == IF cond THEN s ELSE [s EXCEPT !.failed = TRUE]

\* _pypy_stm_inev_state() without the branch of the atomic mode
_pypy_stm_inev_state_oneslot(s) ==
    IF s.pypy_stm_ready_atomic = 1
    THEN [s EXCEPT !.pypy_stm_nursery_low_fill_mark =
              Quarter(s.pypy_stm_nursery_low_fill_mark)]
    ELSE s

\* _pypy_stm_inev_state()
_pypy_stm_inev_state(s) ==
    IF s.pypy_stm_ready_atomic = 1
    THEN [s EXCEPT !.pypy_stm_nursery_low_fill_mark =
              Quarter(s.pypy_stm_nursery_low_fill_mark)]
    ELSE IF s.pypy_stm_nursery_low_fill_mark = UNLIMITED
    THEN [s EXCEPT !.pypy_stm_nursery_low_fill_mark_saved =
              Quarter(s.pypy_stm_nursery_low_fill_mark_saved)]
    ELSE Checked(FALSE, s)

\* stmcb_commit_soon() clearing both marks
stmcb_commit_soon_both(s) ==
    IF s.pypy_stm_nursery_low_fill_mark = UNLIMITED
    THEN IF s.pypy_stm_nursery_low_fill_mark_saved > 0
         THEN [s EXCEPT !.pypy_stm_nursery_low_fill_mark_saved = 0]
         ELSE s
    ELSE IF s.pypy_stm_nursery_low_fill_mark > 0
         THEN [s EXCEPT !.pypy_stm_nursery_low_fill_mark = 0,
                        !.pypy_stm_nursery_low_fill_mark_saved = 0]
         ELSE s

\* stmcb_commit_soon() clearing the mark in use instead of the saved one
stmcb_commit_soon_mark(s) ==
    IF s.pypy_stm_nursery_low_fill_mark = UNLIMITED
    THEN IF s.pypy_stm_nursery_low_fill_mark_saved > 0
         THEN [s EXCEPT !.pypy_stm_nursery_low_fill_mark = 0]
         ELSE s
    ELSE IF s.pypy_stm_nursery_low_fill_mark > 0
         THEN [s EXCEPT !.pypy_stm_nursery_low_fill_mark = 0]
         ELSE s

\* stmcb_commit_soon()
stmcb_commit_soon(s) ==
    IF s.pypy_stm_nursery_low_fill_mark = UNLIMITED
    THEN IF s.pypy_stm_nursery_low_fill_mark_saved > 0
         THEN [s EXCEPT !.pypy_stm_nursery_low_fill_mark_saved = 0]
         ELSE s
    ELSE IF s.pypy_stm_nursery_low_fill_mark > 0
         THEN [s EXCEPT !.pypy_stm_nursery_low_fill_mark = 0]
         ELSE s

\* ------------------------------------------------------------ the engine
\* the transaction of thread record s is the inevitable one
IsInevitable(s) == s.running /\ s.jmpbuf_ptr = NULL

\* some thread other than t runs the inevitable transaction: t must wait
\* before it starts or becomes one
OtherInevitable(t) == \E u \in Threads \ {t} : IsInevitable(th[u])

\* stm_start_inevitable_transaction(&stm_thread_local)
stm_start_inevitable_transaction(s) ==
    [s EXCEPT !.running = TRUE, !.jmpbuf_ptr = NULL, !.nursery_used = 0,
              !.shadowstack_at_start = s.shadowstack]

\* _stm_start_transaction(&stm_thread_local, jmpbuf_ptr)
_stm_start_transaction(s, jmpbuf) ==
    [s EXCEPT !.running = TRUE, !.jmpbuf_ptr = jmpbuf, !.nursery_used = 0,
              !.shadowstack_at_start = s.shadowstack]

\* stm_commit_transaction(), when the engine commits
stm_commit_transaction(s) ==
    [s EXCEPT !.running = FALSE, !.jmpbuf_ptr = NULL, !.nursery_used = 0]

\* _stm_become_inevitable(msg)
_stm_become_inevitable(s) == [s EXCEPT !.jmpbuf_ptr = NULL]

\* the engine aborts the transaction: it records the bytes the transaction
\* took from the nursery, resets the shadowstack to where the transaction
\* started and jumps to the jmpbuf the transaction started with
stm_abort_transaction(s) ==
    [s EXCEPT !.running = FALSE, !.jmpbuf_ptr = NULL,
              !.last_abort = s.nursery_used, !.nursery_used = 0,
              !.shadowstack = s.shadowstack_at_start,
              !.pc = "pt_setjmp", !.unit_aborts = s.unit_aborts + 1]

\* pypy_stm_register_thread_local() / pypy_stm_unregister_thread_local()
pypy_stm_register_thread_local(s) == [s EXCEPT !.registered = TRUE]
pypy_stm_unregister_thread_local(s) == [s EXCEPT !.registered = FALSE]

\* --------------------------------------------- the helpers of stmgcintf.h
\* pypy_stm_should_break_transaction(): nursery_current > low fill mark,
\* both unsigned
pypy_stm_should_break_transaction(s) ==
    ULess(s.pypy_stm_nursery_low_fill_mark, _stm_nursery_start + s.nursery_used)

\* pypy_stm_start_inevitable_if_not_atomic()
pypy_stm_start_inevitable_if_not_atomic(s, length) ==
    IF s.pypy_stm_ready_atomic = 1
    THEN _pypy_stm_inev_state(
             _pypy_stm_initialize_nursery_low_fill_mark(
                 stm_start_inevitable_transaction(s), 0, length))
    ELSE s

\* _pypy_stm_become_inevitable(msg)
_pypy_stm_become_inevitable(s) ==
    _stm_become_inevitable(_pypy_stm_inev_state(s))

\* pypy_stm_become_inevitable(msg): nothing when already inevitable
pypy_stm_become_inevitable(s) ==
    IF s.jmpbuf_ptr # NULL THEN _pypy_stm_become_inevitable(s) ELSE s

\* pypy_stm_commit_if_not_atomic()
pypy_stm_commit_if_not_atomic(s) ==
    IF s.pypy_stm_ready_atomic = 1
    THEN stm_commit_transaction(s)
    ELSE pypy_stm_become_inevitable(s)

\* pypy_stm_increment_atomic(): the first level saves the low fill mark
pypy_stm_increment_atomic(s) ==
    IF s.pypy_stm_ready_atomic + 1 = 2
    THEN [s EXCEPT !.pypy_stm_ready_atomic = 2,
                   !.pypy_stm_nursery_low_fill_mark_saved =
                       s.pypy_stm_nursery_low_fill_mark,
                   !.pypy_stm_nursery_low_fill_mark = UNLIMITED]
    ELSE [s EXCEPT !.pypy_stm_ready_atomic = s.pypy_stm_ready_atomic + 1]

\* pypy_stm_decrement_atomic(): the last level restores the low fill mark;
\* outside every atomic section the call is rejected
pypy_stm_decrement_atomic(s) ==
    IF s.pypy_stm_ready_atomic - 1 = 1
    THEN [s EXCEPT !.pypy_stm_ready_atomic = 1,
                   !.pypy_stm_nursery_low_fill_mark =
                       s.pypy_stm_nursery_low_fill_mark_saved]
    ELSE IF s.pypy_stm_ready_atomic >= 2
    THEN [s EXCEPT !.pypy_stm_ready_atomic = s.pypy_stm_ready_atomic - 1]
    ELSE Checked(FALSE, s)

\* ------------------------------------------------ the functions of the file
\* pypy_stm_enter_callback_call() whose second branch starts no transaction
pypy_stm_enter_callback_call_nostart(s, length) ==
    IF s.pypy_stm_ready_atomic = 0
    THEN IF length >= 0
         THEN [pypy_stm_start_inevitable_if_not_atomic(
                   [pypy_stm_register_thread_local(s)
                       EXCEPT !.pypy_stm_ready_atomic = 1], length)
                  EXCEPT !.token = 1, !.pc = "py"]
         ELSE Checked(FALSE, s)
    ELSE [s EXCEPT !.pc = "cb",
                   !.pre = <<s.pypy_stm_ready_atomic,
                             s.pypy_stm_nursery_low_fill_mark,
                             s.pypy_stm_nursery_low_fill_mark_saved>>]

\* pypy_stm_enter_callback_call() whose second branch resets the atomic
\* count as the first does
pypy_stm_enter_callback_call_reset(s, length) ==
    IF s.pypy_stm_ready_atomic = 0
    THEN IF length >= 0
         THEN [pypy_stm_start_inevitable_if_not_atomic(
                   [pypy_stm_register_thread_local(s)
                       EXCEPT !.pypy_stm_ready_atomic = 1], length)
                  EXCEPT !.token = 1, !.pc = "py"]
         ELSE Checked(FALSE, s)
    ELSE [pypy_stm_start_inevitable_if_not_atomic(
              [s EXCEPT !.pypy_stm_ready_atomic = 1], length)
             EXCEPT !.pc = "cb",
                    !.pre = <<s.pypy_stm_ready_atomic,
                              s.pypy_stm_nursery_low_fill_mark,
                              s.pypy_stm_nursery_low_fill_mark_saved>>]

\* pypy_stm_enter_callback_call(): the record after the call; the token it
\* returns is 1 on the first branch and 0 on the second
pypy_stm_enter_callback_call(s, length) ==
    IF s.pypy_stm_ready_atomic = 0
    THEN IF length >= 0
         THEN [pypy_stm_start_inevitable_if_not_atomic(
                   [pypy_stm_register_thread_local(s)
                       EXCEPT !.pypy_stm_ready_atomic = 1], length)
                  EXCEPT !.token = 1, !.pc = "py"]
         ELSE Checked(FALSE, s)
    ELSE [pypy_stm_start_inevitable_if_not_atomic(s, length)
             EXCEPT !.pc = "cb",
                    !.pre = <<s.pypy_stm_ready_atomic,
                              s.pypy_stm_nursery_low_fill_mark,
                              s.pypy_stm_nursery_low_fill_mark_saved>>]

\* pypy_stm_leave_callback_call(token) that leaves one atomic level where
\* the code leaves them all
pypy_stm_leave_callback_call_onelevel(s, token) ==
    IF token = 1
    THEN [pypy_stm_unregister_thread_local(
              [stm_commit_transaction(s)
                  EXCEPT !.pypy_stm_ready_atomic = s.pypy_stm_ready_atomic - 1])
             EXCEPT !.token = 0, !.pc = "unreg"]
    ELSE [pypy_stm_commit_if_not_atomic(s) EXCEPT !.pc = "c", !.pre = <<>>]

\* pypy_stm_leave_callback_call(token) that keeps the atomic count while it
\* commits
pypy_stm_leave_callback_call_ifnotatomic(s, token) ==
    IF token = 1
    THEN [pypy_stm_unregister_thread_local(
              [pypy_stm_commit_if_not_atomic(s)
                  EXCEPT !.pypy_stm_ready_atomic = 0])
             EXCEPT !.token = 0, !.pc = "unreg"]
    ELSE [pypy_stm_commit_if_not_atomic(s) EXCEPT !.pc = "c", !.pre = <<>>]

\* pypy_stm_leave_callback_call(token)
pypy_stm_leave_callback_call(s, token) ==
    IF token = 1
    THEN [pypy_stm_unregister_thread_local(
              [stm_commit_transaction([s EXCEPT !.pypy_stm_ready_atomic = 1])
                  EXCEPT !.pypy_stm_ready_atomic = 0])
             EXCEPT !.token = 0, !.pc = "unreg"]
    ELSE [pypy_stm_commit_if_not_atomic(s) EXCEPT !.pc = "c", !.pre = <<>>]

\* pypy_stm_start_transaction(&jmpbuf, &v_counter) without the reset of
\* pypy_stm_ready_atomic
pypy_stm_start_transaction_noreset(s, length) ==
    LET s1 == _stm_start_transaction(
                  [s EXCEPT !.pypy_stm_nursery_low_fill_mark = 1], JMPBUF)
        s2 == _pypy_stm_initialize_nursery_low_fill_mark(s1, s.v_counter, length)
    IN  [s2 EXCEPT !.v_counter = s.v_counter + 1]

\* pypy_stm_start_transaction(&jmpbuf, &v_counter)
pypy_stm_start_transaction(s, length) ==
    LET s1 == _stm_start_transaction(
                  [s EXCEPT !.pypy_stm_nursery_low_fill_mark = 1], JMPBUF)
        s2 == _pypy_stm_initialize_nursery_low_fill_mark(s1, s.v_counter, length)
    IN  [s2 EXCEPT !.v_counter = s.v_counter + 1,
                   !.pypy_stm_ready_atomic = 1]

\* lines 208-213 of pypy_stm_perform_transaction: the root is popped and
\* pushed again around the assertion, then the callback is invoked
InvokeCallback(s) ==
    Checked(s.v_old_shadowstack = s.shadowstack - 1, [s EXCEPT !.pc = "work"])

\* the end of pypy_stm_perform_transaction without the escalation
LeavePerformTransaction_noescalate(s) ==
    LET s2 == Checked(s.pypy_stm_ready_atomic = 1
                          \/ s.pypy_stm_nursery_low_fill_mark = UNLIMITED,
                      [s EXCEPT !.shadowstack = s.shadowstack - 1,
                                !.pc = "py", !.result = 0,
                                !.v_counter = 0, !.counter = 0,
                                !.unit_aborts = 0])
    IN  Checked(s.v_old_shadowstack = s.shadowstack - 1,
                [s2 EXCEPT !.v_old_shadowstack = 0])

\* the end of pypy_stm_perform_transaction breaking the transaction instead
\* of escalating it
LeavePerformTransaction_commit(s) ==
    LET s1 == IF s.jmpbuf_ptr = JMPBUF THEN stm_commit_transaction(s) ELSE s
        s2 == Checked(s1.pypy_stm_ready_atomic = 1
                          \/ s1.pypy_stm_nursery_low_fill_mark = UNLIMITED,
                      [s1 EXCEPT !.shadowstack = s1.shadowstack - 1,
                                 !.pc = "py", !.result = 0,
                                 !.v_counter = 0, !.counter = 0,
                                 !.unit_aborts = 0])
    IN  Checked(s.v_old_shadowstack = s.shadowstack - 1,
                [s2 EXCEPT !.v_old_shadowstack = 0])

\* the end of pypy_stm_perform_transaction, from the test of jmpbuf_ptr on
LeavePerformTransaction(s) ==
    LET s1 == IF s.jmpbuf_ptr = JMPBUF THEN _stm_become_inevitable(s) ELSE s
        s2 == Checked(s1.pypy_stm_ready_atomic = 1
                          \/ s1.pypy_stm_nursery_low_fill_mark = UNLIMITED,
                      [s1 EXCEPT !.shadowstack = s1.shadowstack - 1,
                                 !.pc = "py", !.result = 0,
                                 !.v_counter = 0, !.counter = 0,
                                 !.unit_aborts = 0])
    IN  Checked(s.v_old_shadowstack = s.shadowstack - 1,
                [s2 EXCEPT !.v_old_shadowstack = 0])

\* ------------------------------------------------------------ the state
\* a thread before its first call: the thread-locals are zero-initialised.
\* begins, calls and plain count, for the running perform_transaction, the
\* transactions it has started, the invocations of the callback, and whether
\* it has met neither an abort nor an atomic section; atomic0 follows the
\* thread from its entry into an atomic section: the low fill mark before
\* the entry, whether the transaction was inevitable then, and how far the
\* thread is in the sequence foreign call, callback, leave, return.
Thread0 ==
    [pc |-> "unreg", ret |-> "py", token |-> 0, pre |-> <<>>,
     pypy_stm_ready_atomic |-> 0,
     pypy_stm_nursery_low_fill_mark |-> 0,
     pypy_stm_nursery_low_fill_mark_saved |-> 0,
     registered |-> FALSE, running |-> FALSE, jmpbuf_ptr |-> NULL,
     nursery_used |-> 0, last_abort |-> 0,
     shadowstack |-> 0, shadowstack_at_start |-> 0,
     v_counter |-> 0, counter |-> 0, v_old_shadowstack |-> 0,
     result |-> 0, unit_aborts |-> 0,
     begins |-> 0, calls |-> 0, plain |-> FALSE, atomic0 |-> <<>>,
     failed |-> FALSE]

Init ==
    /\ th = [t \in Threads |-> Thread0]
    /\ pypy_transaction_length = 0
    /\ fraction = <<0, 1>>
    /\ stm_ready = FALSE

\* the fractions the program configures while transactions run
RunFractions == {<<FractionDen, FractionDen>>}
\* the fraction pypy_stm_setup() passes
SetupFraction == <<0 - 10000, 1>>
\* what the callback returns
Outcomes == {0, 1}

\* thread t, no assertion of which has failed, takes the step that leaves
\* its record as s
Step(t, s) == ~th[t].failed /\ th' = [th EXCEPT ![t] = s]

\* atomic0 of a thread whose transaction was aborted inside an atomic
\* section, until the step after the restart
Stale == <<0, FALSE, 9>>

\* the thread takes the step of the sequence that leads from phase a to
\* phase b; taken from elsewhere, the step leaves the sequence
SeqStep(s, a, b) ==
    IF s.atomic0 # <<>> /\ s.atomic0[3] = a
    THEN [s EXCEPT !.atomic0[3] = b]
    ELSE [s EXCEPT !.atomic0 = <<>>]

\* the thread takes a step that is no part of the sequence
Other(s) == [s EXCEPT !.atomic0 = <<>>]

\* the running perform_transaction is no longer a plain one
NotPlain(s) == [s EXCEPT !.plain = FALSE, !.begins = 0, !.calls = 0]

\* ----------------------------------------------------------- the actions
\* pypy_stm_setup(), by the main thread
Setup(t) ==
    /\ t = "main" /\ th[t].pc = "unreg" /\ ~stm_ready
    /\ ~OtherInevitable(t)
    /\ stm_ready' = TRUE
    /\ fraction' = SetupFraction
    /\ pypy_transaction_length' = pypy_stm_set_transaction_length(SetupFraction)
    /\ Step(t, [pypy_stm_start_inevitable_if_not_atomic(
                    [pypy_stm_register_thread_local(th[t])
                        EXCEPT !.pypy_stm_ready_atomic = 1],
                    pypy_transaction_length')
                  EXCEPT !.pc = "py"])

\* pypy_stm_teardown(), by the main thread
Teardown(t) ==
    /\ t = "main" /\ th[t].pc = "py"
    /\ Step(t, [pypy_stm_unregister_thread_local(Other(th[t]))
                   EXCEPT !.pc = "exited"])
    /\ UNCHANGED <<pypy_transaction_length, fraction, stm_ready>>

\* pypy_stm_set_transaction_length(fraction), called by the program
SetLength(t) ==
    /\ th[t].pc = "py" /\ ~th[t].failed
    /\ \E f \in RunFractions :
          /\ fraction' = f
          /\ pypy_transaction_length' = pypy_stm_set_transaction_length(f)
    /\ UNCHANGED <<th, stm_ready>>

\* pypy_stm_increment_atomic()
IncAtomic(t) ==
    /\ th[t].pc \in {"py", "work"}
    /\ th[t].pypy_stm_ready_atomic < 1 + MaxAtomic
    /\ Step(t, [pypy_stm_increment_atomic(NotPlain(th[t]))
                   EXCEPT !.atomic0 =
                              IF th[t].pypy_stm_ready_atomic = 1
                              THEN <<th[t].pypy_stm_nursery_low_fill_mark,
                                     th[t].jmpbuf_ptr = NULL, 0>>
                              ELSE <<>>])
    /\ UNCHANGED <<pypy_transaction_length, fraction, stm_ready>>

\* pypy_stm_decrement_atomic()
DecAtomic(t) ==
    /\ th[t].pc \in {"py", "work"}
    /\ th[t].pypy_stm_ready_atomic >= 1
    /\ Step(t, pypy_stm_decrement_atomic(Other(th[t])))
    /\ UNCHANGED <<pypy_transaction_length, fraction, stm_ready>>

\* pypy_stm_become_inevitable(msg) on a transaction that is not inevitable:
\* the thread waits while another thread runs the inevitable transaction
Escalate(t) ==
    /\ th[t].pc \in {"py", "work", "cb"}
    /\ th[t].running /\ th[t].jmpbuf_ptr # NULL
    /\ ~OtherInevitable(t)
    /\ Step(t, [pypy_stm_become_inevitable(Other(th[t])) EXCEPT !.pre = <<>>])
    /\ UNCHANGED <<pypy_transaction_length, fraction, stm_ready>>

\* the engine asks the thread to commit soon
CommitSoon(t) ==
    /\ th[t].pc \in {"py", "work", "cb"}
    /\ th[t].running
    /\ Step(t, [stmcb_commit_soon(Other(th[t])) EXCEPT !.pre = <<>>])
    /\ UNCHANGED <<pypy_transaction_length, fraction, stm_ready>>

\* the thread calls foreign code: pypy_stm_commit_if_not_atomic() before it
ExternalCall(t) ==
    /\ th[t].pc \in {"py", "work"}
    /\ th[t].running
    /\ th[t].pypy_stm_ready_atomic = 1 \/ th[t].jmpbuf_ptr = NULL
          \/ ~OtherInevitable(t)
    /\ Step(t, [pypy_stm_commit_if_not_atomic(SeqStep(th[t], 0, 1))
                   EXCEPT !.pc = "c", !.ret = th[t].pc])
    /\ UNCHANGED <<pypy_transaction_length, fraction, stm_ready>>

\* the foreign code returns: pypy_stm_start_inevitable_if_not_atomic() after it
ExternalReturn(t) ==
    /\ th[t].pc = "c"
    /\ th[t].pypy_stm_ready_atomic # 1 \/ ~OtherInevitable(t)
    /\ Step(t, [pypy_stm_start_inevitable_if_not_atomic(
                    SeqStep(th[t], 3, 4), pypy_transaction_length)
                  EXCEPT !.pc = th[t].ret, !.ret = "py"])
    /\ UNCHANGED <<pypy_transaction_length, fraction, stm_ready>>

\* pypy_stm_enter_callback_call(): by a thread never seen before, or from
\* the foreign code a registered thread called; the thread waits for the
\* inevitable transaction of another thread where it starts its own, which
\* is after the assertion of the first-time path
EnterCallback(t) ==
    /\ \/ th[t].pc = "unreg" /\ t # "main" /\ stm_ready
       \/ th[t].pc = "c"
    /\ \/ th[t].pypy_stm_ready_atomic > 1
       \/ ~OtherInevitable(t)
       \/ th[t].pypy_stm_ready_atomic = 0 /\ pypy_transaction_length < 0
    /\ Step(t, pypy_stm_enter_callback_call(
                   SeqStep(th[t], 1, 2), pypy_transaction_length))
    /\ UNCHANGED <<pypy_transaction_length, fraction, stm_ready>>

\* pypy_stm_leave_callback_call(token) with the token the enter returned
LeaveCallback(t) ==
    /\ \/ th[t].pc = "cb"
       \/ th[t].pc = "py" /\ th[t].token = 1
    /\ Step(t, IF th[t].pc = "cb"
               THEN pypy_stm_leave_callback_call(SeqStep(th[t], 2, 3), 0)
               ELSE pypy_stm_leave_callback_call(
                        [th[t] EXCEPT !.atomic0 = <<>>], 1))
    /\ UNCHANGED <<pypy_transaction_length, fraction, stm_ready>>

\* pypy_stm_perform_transaction(arg, callback) without STM_PUSH_ROOT
PerformTransaction_nopush(t) ==
    /\ th[t].pc = "py"
    /\ Step(t, [Other(th[t])
                   EXCEPT !.v_counter = 0,
                          !.v_old_shadowstack = th[t].shadowstack,
                          !.unit_aborts = 0,
                          !.begins = 0, !.calls = 0,
                          !.plain = (th[t].pypy_stm_ready_atomic = 1),
                          !.pc = "pt_loop"])
    /\ UNCHANGED <<pypy_transaction_length, fraction, stm_ready>>

\* pypy_stm_perform_transaction(arg, callback): up to the loop
PerformTransaction(t) ==
    /\ th[t].pc = "py"
    /\ Step(t, [Other(th[t])
                   EXCEPT !.v_counter = 0,
                          !.v_old_shadowstack = th[t].shadowstack,
                          !.shadowstack = th[t].shadowstack + 1,
                          !.unit_aborts = 0,
                          !.begins = 0, !.calls = 0,
                          !.plain = (th[t].pypy_stm_ready_atomic = 1),
                          !.pc = "pt_loop"])
    /\ UNCHANGED <<pypy_transaction_length, fraction, stm_ready>>

\* the loop finds pypy_stm_should_break_transaction() and the engine commits
LoopCommit(t) ==
    /\ th[t].pc = "pt_loop"
    /\ pypy_stm_should_break_transaction(th[t])
    /\ Step(t, IF th[t].pypy_stm_nursery_low_fill_mark # UNLIMITED
               THEN [stm_commit_transaction(Other(th[t]))
                        EXCEPT !.pc = "pt_setjmp"]
               ELSE Checked(FALSE, th[t]))
    /\ UNCHANGED <<pypy_transaction_length, fraction, stm_ready>>

\* after the setjmp, at first or after an abort: the transaction starts and
\* the callback is invoked
LoopStart(t) ==
    /\ th[t].pc = "pt_setjmp"
    /\ Step(t, InvokeCallback(
                   pypy_stm_start_transaction(
                       [th[t] EXCEPT !.counter = th[t].v_counter,
                                     !.begins = IF th[t].plain
                                                THEN th[t].begins + 1 ELSE 0,
                                     !.calls = IF th[t].plain
                                               THEN th[t].calls + 1 ELSE 0],
                       pypy_transaction_length)))
    /\ UNCHANGED <<pypy_transaction_length, fraction, stm_ready>>

\* the loop does not break the transaction: the callback is invoked in it
LoopSkip(t) ==
    /\ th[t].pc = "pt_loop"
    /\ ~pypy_stm_should_break_transaction(th[t])
    /\ Step(t, InvokeCallback([Other(th[t])
                                  EXCEPT !.counter = th[t].v_counter,
                                         !.calls = IF th[t].plain
                                                   THEN th[t].calls + 1
                                                   ELSE 0]))
    /\ UNCHANGED <<pypy_transaction_length, fraction, stm_ready>>

\* the callback allocates in the nursery
Alloc(t) ==
    /\ th[t].pc = "work" /\ th[t].running
    /\ th[t].nursery_used + AllocChunk <= MaxAllocs * AllocChunk
    /\ th[t].nursery_used + AllocChunk <= NURSERY_SIZE
    /\ Step(t, [Other(th[t])
                   EXCEPT !.nursery_used = th[t].nursery_used + AllocChunk])
    /\ UNCHANGED <<pypy_transaction_length, fraction, stm_ready>>

\* the callback pushes a root of its own on the shadowstack
PushRoot(t) ==
    /\ th[t].pc = "work" /\ th[t].running
    /\ th[t].shadowstack < th[t].v_old_shadowstack + 1 + MaxRoots
    /\ Step(t, [Other(th[t]) EXCEPT !.shadowstack = th[t].shadowstack + 1])
    /\ UNCHANGED <<pypy_transaction_length, fraction, stm_ready>>

\* the callback pops a root it has pushed
PopRoot(t) ==
    /\ th[t].pc = "work" /\ th[t].running
    /\ th[t].shadowstack > th[t].v_old_shadowstack + 1
    /\ Step(t, [Other(th[t]) EXCEPT !.shadowstack = th[t].shadowstack - 1])
    /\ UNCHANGED <<pypy_transaction_length, fraction, stm_ready>>

\* the callback returns, the loop ending on "result >= 0"
CallbackReturn_wrongtest(t) ==
    /\ th[t].pc = "work" /\ th[t].running
    /\ th[t].shadowstack = th[t].v_old_shadowstack + 1
    /\ \E r \in Outcomes :
          /\ r > 0 => th[t].calls < MaxCalls
          /\ Step(t, IF r >= 0
                     THEN [Other(th[t]) EXCEPT !.result = r, !.pc = "pt_exit"]
                     ELSE [Other(th[t]) EXCEPT !.result = r, !.pc = "pt_loop",
                                               !.v_counter = 0,
                                               !.unit_aborts = 0])
    /\ UNCHANGED <<pypy_transaction_length, fraction, stm_ready>>

\* the callback returns, the loop keeping v_counter after a positive result
CallbackReturn_noreset(t) ==
    /\ th[t].pc = "work" /\ th[t].running
    /\ th[t].shadowstack = th[t].v_old_shadowstack + 1
    /\ \E r \in Outcomes :
          /\ r > 0 => th[t].calls < MaxCalls
          /\ Step(t, IF r <= 0
                     THEN [Other(th[t]) EXCEPT !.result = r, !.pc = "pt_exit"]
                     ELSE [Other(th[t]) EXCEPT !.result = r, !.pc = "pt_loop",
                                               !.unit_aborts = 0])
    /\ UNCHANGED <<pypy_transaction_length, fraction, stm_ready>>

\* the callback returns, having popped the roots it pushed: lines 213-216
CallbackReturn(t) ==
    /\ th[t].pc = "work" /\ th[t].running
    /\ th[t].shadowstack = th[t].v_old_shadowstack + 1
    /\ \E r \in Outcomes :
          /\ r > 0 => th[t].calls < MaxCalls
          /\ Step(t, IF r <= 0
                     THEN [Other(th[t]) EXCEPT !.result = r, !.pc = "pt_exit"]
                     ELSE [Other(th[t]) EXCEPT !.result = r, !.pc = "pt_loop",
                                               !.v_counter = 0,
                                               !.unit_aborts = 0])
    /\ UNCHANGED <<pypy_transaction_length, fraction, stm_ready>>

\* the end of pypy_stm_perform_transaction; it waits to become inevitable
LoopExit(t) ==
    /\ th[t].pc = "pt_exit"
    /\ th[t].jmpbuf_ptr # JMPBUF \/ ~OtherInevitable(t)
    /\ Step(t, [LeavePerformTransaction(Other(th[t]))
                   EXCEPT !.begins = 0, !.calls = 0, !.plain = FALSE])
    /\ UNCHANGED <<pypy_transaction_length, fraction, stm_ready>>

\* the engine aborts the transaction of t, which is not inevitable: in the
\* callback or inside a call of the engine
Abort(t) ==
    /\ th[t].running /\ th[t].jmpbuf_ptr # NULL
    /\ th[t].unit_aborts < MaxAborts
    /\ Step(t, [stm_abort_transaction(NotPlain(th[t]))
                   EXCEPT !.atomic0 = IF th[t].pypy_stm_ready_atomic >= 2
                                      THEN Stale ELSE <<>>])
    /\ UNCHANGED <<pypy_transaction_length, fraction, stm_ready>>

\* the thread that runs the transactions; the main thread sets the system
\* up, configures it and calls foreign code
Workers == Threads \ {"main"}

Next ==
    \/ \E t \in Threads :
        \/ Setup(t)
        \/ Teardown(t)
        \/ SetLength(t)
        \/ ExternalCall(t)
        \/ ExternalReturn(t)
        \/ EnterCallback(t)
        \/ LeaveCallback(t)
    \/ \E t \in Workers :
        \/ IncAtomic(t)
        \/ DecAtomic(t)
        \/ Escalate(t)
        \/ CommitSoon(t)
        \/ PerformTransaction(t)
        \/ LoopCommit(t)
        \/ LoopStart(t)
        \/ LoopSkip(t)
        \/ Alloc(t)
        \/ PushRoot(t)
        \/ PopRoot(t)
        \/ CallbackReturn(t)
        \/ LoopExit(t)
        \/ Abort(t)

Spec == Init /\ [][Next]_vars

\* ------------------------------------------- the budget, step by step
\* One thread configures the length, starts a transaction and then aborts
\* again and again, each transaction having consumed exactly its limit.
BudgetThread == "foreign"

BudgetConfigure ==
    /\ ~th[BudgetThread].running /\ th[BudgetThread].v_counter = 0
    /\ \E k \in 0 .. MaxFractionNum :
          /\ fraction' = <<k, FractionDen>>
          /\ pypy_transaction_length' =
                 pypy_stm_set_transaction_length(<<k, FractionDen>>)
    /\ UNCHANGED <<th, stm_ready>>

BudgetBegin ==
    /\ ~th[BudgetThread].running
    /\ Step(BudgetThread,
            pypy_stm_start_transaction(th[BudgetThread], pypy_transaction_length))
    /\ UNCHANGED <<pypy_transaction_length, fraction, stm_ready>>

BudgetAbort ==
    /\ th[BudgetThread].running
    /\ th[BudgetThread].unit_aborts < MaxRetries
    /\ Step(BudgetThread,
            stm_abort_transaction(
                [th[BudgetThread] EXCEPT !.nursery_used =
                    th[BudgetThread].pypy_stm_nursery_low_fill_mark
                        - _stm_nursery_start]))
    /\ UNCHANGED <<pypy_transaction_length, fraction, stm_ready>>

BudgetNext == BudgetConfigure \/ BudgetBegin \/ BudgetAbort

SpecBudget == Init /\ [][BudgetNext]_vars

\* ------------------------------------ atomic sections outside the loop
\* No thread runs perform_transaction: from pypy_stm_setup() on, the main
\* thread and the threads the foreign code brings configure the length or
\* not, enter and leave atomic sections, call foreign code, are called back
\* and receive commit-soon requests.
SoloNext ==
    \E t \in Threads :
        \/ Setup(t)
        \/ Teardown(t)
        \/ SetLength(t)
        \/ IncAtomic(t)
        \/ DecAtomic(t)
        \/ CommitSoon(t)
        \/ ExternalCall(t)
        \/ ExternalReturn(t)
        \/ EnterCallback(t)
        \/ LeaveCallback(t)

SpecSolo == Init /\ [][SoloNext]_vars

\* ------------------------------------------------------------ the claims
\* thread record s is inside pypy_stm_perform_transaction
InLoop(s) ==
    \/ s.pc \in {"pt_loop", "pt_setjmp", "work", "pt_exit"}
    \/ s.pc \in {"c", "cb"} /\ s.ret = "work"

\* the layer relies on the open transaction of s being inevitable: it is, or
\* it runs outside every perform_transaction, where no checkpoint is live
TreatedInevitable(s) ==
    s.running /\ (s.jmpbuf_ptr = NULL \/ ~InLoop(s))

\* the limit of the running transaction of s
LimitOf(s) == s.pypy_stm_nursery_low_fill_mark - _stm_nursery_start

\* 3/4 of the nursery
Cap == TruncDiv(NURSERY_SIZE * 3, 4)

\* C1: at most one thread holds a transaction that is inevitable or that the
\* layer treats as inevitable.
C1_AtMostOneInevitable ==
    Cardinality({t \in Threads : TreatedInevitable(th[t])}) <= 1

\* C1 witness: one thread is inevitable while the other, its callback done,
\* waits at the end of perform_transaction with a transaction it must escalate
C1_Witness ==
    \E t, u \in Threads :
        /\ IsInevitable(th[t])
        /\ th[u].pc = "pt_exit" /\ th[u].running /\ th[u].jmpbuf_ptr = JMPBUF

\* C2: every abort resumes at the checkpoint and the callback runs again;
\* perform_transaction is left only from its end, which is reached only by
\* a callback that returned an outcome <= 0.
C2_AbortsRetryInside ==
    [][\A t \in Threads :
        /\ th'[t].unit_aborts = th[t].unit_aborts + 1
              => th'[t].pc = "pt_setjmp"
        /\ (th[t].pc = "pt_setjmp" /\ th'[t] # th[t]) => th'[t].pc = "work"
        /\ (InLoop(th[t]) /\ ~InLoop(th'[t]))
              => (th[t].pc = "pt_exit" /\ th[t].result <= 0 /\ th'[t].pc = "py")
        /\ (th'[t].pc = "pt_exit" /\ th[t].pc # "pt_exit")
              => (th[t].pc = "work" /\ th'[t].result <= 0)]_vars

\* C2 witness: the callback runs again after an abort
C2_Witness ==
    \E t \in Threads : th[t].pc = "work" /\ th[t].unit_aborts >= 1

\* C3 (as claimed): whenever the callback runs after an abort, the attempt
\* it was passed is the number of aborts of the current unit of work.
C3_AttemptCountsAborts ==
    \A t \in Threads :
        (th[t].pc = "work" /\ th[t].unit_aborts >= 1)
            => th[t].counter = th[t].unit_aborts

C5_NoDanglingCheckpoint ==
    [][\A t \in Threads :
        /\ (th[t].pc = "pt_exit" /\ th'[t].pc = "py")
              => (th'[t].running /\ th'[t].jmpbuf_ptr = NULL)
        /\ ~InLoop(th'[t]) => th'[t].jmpbuf_ptr # JMPBUF]_vars

\* C5 witness: perform_transaction has returned and left open, inevitable,
\* the transaction its loop started with the full configured budget
C5_Witness ==
    \E t \in Threads :
        /\ th[t].pc = "py" /\ IsInevitable(th[t])
        /\ pypy_transaction_length > 0
        /\ LimitOf(th[t]) = pypy_transaction_length

\* C6: inside an atomic section the low fill mark is the unlimited sentinel
\* and the test for breaking the transaction is false.
C6_AtomicUnlimited ==
    \A t \in Threads :
        th[t].pypy_stm_ready_atomic >= 2
            => /\ th[t].pypy_stm_nursery_low_fill_mark = UNLIMITED
               /\ ~pypy_stm_should_break_transaction(th[t])

\* C6 witness: an atomic thread with nursery in use whose saved mark a
\* commit-soon request has cleared, the mark in use still unlimited
C6_Witness ==
    \E t \in Threads :
        /\ th[t].pypy_stm_ready_atomic >= 2
        /\ th[t].pypy_stm_nursery_low_fill_mark_saved = 0
        /\ th[t].nursery_used > 0

\* C7 (as claimed): a transaction the loop starts has the budget
\* _stm_nursery_start + limit, the limit chosen by the attempt; the one
\* started right after an abort of the unit has the shrunk limit.
C7_BudgetAfterBegin ==
    [][\A t \in Threads :
        (th[t].pc = "pt_setjmp" /\ th'[t].pc = "work")
            => /\ LimitOf(th'[t]) =
                      Limit(th'[t].counter, pypy_transaction_length,
                            th[t].last_abort)
               /\ th[t].unit_aborts >= 1
                      => LimitOf(th'[t]) =
                             th[t].last_abort - Shr(th[t].last_abort, 4)]_vars

C9_ClampedAboveOne ==
    \A t \in Threads :
        (th[t].running /\ th[t].v_counter = 1)
            => /\ fraction[1] <= fraction[2]
                      => (0 <= LimitOf(th[t]) /\ LimitOf(th[t]) <= Cap)
               /\ fraction[1] > fraction[2] => LimitOf(th[t]) = Cap

\* C9 (amended): the first limit is within 0 .. Cap for a fraction in [0, 1];
\* for a larger fraction it is LOW_FILL_MARK * fraction, truncated, while
\* that is at most Cap, and exactly Cap beyond.
C9_ClampedAboveCap ==
    \A t \in Threads :
        (th[t].running /\ th[t].v_counter = 1)
            => /\ fraction[1] <= fraction[2]
                      => (0 <= LimitOf(th[t]) /\ LimitOf(th[t]) <= Cap)
               /\ (fraction[1] > fraction[2]
                      /\ LOW_FILL_MARK * fraction[1] > Cap * fraction[2])
                      => LimitOf(th[t]) = Cap
               /\ (fraction[1] > fraction[2]
                      /\ LOW_FILL_MARK * fraction[1] <= Cap * fraction[2])
                      => /\ LimitOf(th[t]) * fraction[2]
                                <= LOW_FILL_MARK * fraction[1]
                         /\ LOW_FILL_MARK * fraction[1]
                                < (LimitOf(th[t]) + 1) * fraction[2]

\* C9 witness: a fraction above the cap was configured and a transaction
\* started with the clamped limit
C9_Witness ==
    \E t \in Threads :
        /\ th[t].running /\ th[t].v_counter = 1
        /\ LOW_FILL_MARK * fraction[1] > Cap * fraction[2]
        /\ LimitOf(th[t]) = Cap

C14_OnlyEnterLeave ==
    [][\A t \in Threads :
        (th[t].pypy_stm_ready_atomic >= 1 /\ th'[t].pypy_stm_ready_atomic >= 1
            /\ th'[t].pypy_stm_ready_atomic # th[t].pypy_stm_ready_atomic)
            => \/ IncAtomic(t) /\ th'[t].pypy_stm_ready_atomic
                                     = th[t].pypy_stm_ready_atomic + 1
               \/ DecAtomic(t) /\ th'[t].pypy_stm_ready_atomic
                                     = th[t].pypy_stm_ready_atomic - 1]_vars

\* C14 (amended): pypy_stm_ready_atomic is never negative; it changes by +1
\* in pypy_stm_increment_atomic and by -1 in pypy_stm_decrement_atomic, it
\* is set to 1 by the registration and by the start of a transaction in the
\* loop, and to 0 by pypy_stm_leave_callback_call(1); outside every atomic
\* section pypy_stm_decrement_atomic fails and changes none of the three
\* thread-locals.
C14_DepthSteps ==
    [][\A t \in Threads :
        /\ th'[t].pypy_stm_ready_atomic >= 0
        /\ th'[t].pypy_stm_ready_atomic # th[t].pypy_stm_ready_atomic
              => \/ IncAtomic(t) /\ th'[t].pypy_stm_ready_atomic
                                       = th[t].pypy_stm_ready_atomic + 1
                 \/ DecAtomic(t) /\ th'[t].pypy_stm_ready_atomic
                                       = th[t].pypy_stm_ready_atomic - 1
                 \/ /\ th[t].pypy_stm_ready_atomic = 0
                    /\ th[t].pc = "unreg"
                    /\ th'[t].pypy_stm_ready_atomic = 1
                 \/ /\ th[t].pc = "pt_setjmp" /\ th'[t].pc = "work"
                    /\ th'[t].pypy_stm_ready_atomic = 1
                 \/ /\ th[t].token = 1 /\ th'[t].token = 0
                    /\ th'[t].pypy_stm_ready_atomic = 0
        /\ (DecAtomic(t) /\ th[t].pypy_stm_ready_atomic = 1)
              => /\ th'[t].failed
                 /\ th'[t].pypy_stm_ready_atomic = 1
                 /\ th'[t].pypy_stm_nursery_low_fill_mark
                        = th[t].pypy_stm_nursery_low_fill_mark
                 /\ th'[t].pypy_stm_nursery_low_fill_mark_saved
                        = th[t].pypy_stm_nursery_low_fill_mark_saved]_vars

\* C14 witness: pypy_stm_decrement_atomic was called outside every atomic
\* section, inside a transaction of the loop, and failed
C14_Witness ==
    \E t \in Threads :
        /\ th[t].failed /\ th[t].pc = "work"
        /\ th[t].pypy_stm_ready_atomic = 1
        /\ th[t].jmpbuf_ptr = JMPBUF

\* C15: at every invocation of the callback, the first and each one after an
\* abort, the shadowstack holds exactly arg above its height at the entry of
\* perform_transaction and the assertion of line 210 holds; when
\* perform_transaction returns the shadowstack is at that height again.
C15_RootBalanced ==
    [][\A t \in Threads :
        /\ (th[t].pc \in {"pt_loop", "pt_setjmp"}
               /\ th'[t].pc \notin {"pt_loop", "pt_setjmp"})
              => /\ th'[t].pc = "work"
                 /\ th'[t].shadowstack = th'[t].v_old_shadowstack + 1
        /\ (th[t].pc = "pt_exit" /\ th'[t].pc \notin {"pt_exit", "pt_setjmp"})
              => /\ th'[t].pc = "py"
                 /\ th'[t].shadowstack = th[t].v_old_shadowstack]_vars

\* C15 witness: the callback, invoked again after an abort, has pushed a
\* root of its own above arg
C15_Witness ==
    \E t \in Threads :
        /\ th[t].pc = "work" /\ th[t].unit_aborts >= 1
        /\ th[t].shadowstack = th[t].v_old_shadowstack + 2

\* C16 (as claimed): a thread that is not registered holds no open
\* transaction: each deregistration comes after the commit.
C16_DeregisteredNoOpenTx ==
    \A t \in Threads : ~th[t].registered => ~th[t].running

\* C17: after every start of a transaction by the loop, also the restart
\* after an abort inside an atomic section, the thread is in normal mode and
\* its low fill mark is _stm_nursery_start + limit for the limit of the
\* attempt, not the unlimited mark.
C17_BeginResetsMode ==
    [][\A t \in Threads :
        (th[t].pc = "pt_setjmp" /\ th'[t].pc # "pt_setjmp")
            => /\ th'[t].pc = "work" /\ th'[t].running
               /\ th'[t].pypy_stm_ready_atomic = 1
               /\ th'[t].pypy_stm_nursery_low_fill_mark # UNLIMITED
               /\ th'[t].pypy_stm_nursery_low_fill_mark =
                      _stm_nursery_start
                          + Limit(th[t].v_counter, pypy_transaction_length,
                                  th[t].last_abort)
               /\ ~pypy_stm_should_break_transaction(th'[t])]_vars

\* C17 witness: the transaction was aborted inside an atomic section and the
\* loop has just started the next one
C17_Witness ==
    \E t \in Threads :
        /\ th[t].pc = "work" /\ th[t].atomic0 = Stale
        /\ th[t].unit_aborts >= 1
        /\ th[t].pypy_stm_ready_atomic = 1
        /\ th[t].pypy_stm_nursery_low_fill_mark_saved # 0

\* the three thread-locals of thread t are left as they are
SameLocals(t) ==
    /\ th'[t].pypy_stm_ready_atomic = th[t].pypy_stm_ready_atomic
    /\ th'[t].pypy_stm_nursery_low_fill_mark
           = th[t].pypy_stm_nursery_low_fill_mark
    /\ th'[t].pypy_stm_nursery_low_fill_mark_saved
           = th[t].pypy_stm_nursery_low_fill_mark_saved

\* C18 (as claimed): stmcb_commit_soon changes one slot: for a thread that
\* is not atomic it sets the low fill mark to 0, unless the mark is the
\* negative one of the time before the first configuration, which it leaves;
\* for an atomic thread it sets the saved mark to 0; all the rest is left.
C18_OneSlotToZero ==
    [][\A t \in Threads :
        CommitSoon(t)
            => /\ th'[t].pypy_stm_ready_atomic = th[t].pypy_stm_ready_atomic
               /\ (th[t].pypy_stm_ready_atomic = 1
                      /\ th[t].pypy_stm_nursery_low_fill_mark >= 0)
                     => /\ th'[t].pypy_stm_nursery_low_fill_mark = 0
                        /\ th'[t].pypy_stm_nursery_low_fill_mark_saved
                               = th[t].pypy_stm_nursery_low_fill_mark_saved
               /\ (th[t].pypy_stm_ready_atomic = 1
                      /\ th[t].pypy_stm_nursery_low_fill_mark < 0)
                     => SameLocals(t)
               /\ th[t].pypy_stm_ready_atomic >= 2
                     => /\ th'[t].pypy_stm_nursery_low_fill_mark_saved = 0
                        /\ th'[t].pypy_stm_nursery_low_fill_mark = UNLIMITED
                        /\ th[t].pypy_stm_nursery_low_fill_mark = UNLIMITED]_vars

\* C18 (amended): the same, but for an atomic thread the saved mark is set
\* to 0 only when it is positive: a saved mark that is the negative one of
\* the time before the first configuration is left as it is.
C18_OneSlotToZeroIfConfigured ==
    [][\A t \in Threads :
        CommitSoon(t)
            => /\ th'[t].pypy_stm_ready_atomic = th[t].pypy_stm_ready_atomic
               /\ (th[t].pypy_stm_ready_atomic = 1
                      /\ th[t].pypy_stm_nursery_low_fill_mark >= 0)
                     => /\ th'[t].pypy_stm_nursery_low_fill_mark = 0
                        /\ th'[t].pypy_stm_nursery_low_fill_mark_saved
                               = th[t].pypy_stm_nursery_low_fill_mark_saved
               /\ (th[t].pypy_stm_ready_atomic = 1
                      /\ th[t].pypy_stm_nursery_low_fill_mark < 0)
                     => SameLocals(t)
               /\ th[t].pypy_stm_ready_atomic >= 2
                     => /\ th[t].pypy_stm_nursery_low_fill_mark = UNLIMITED
                        /\ th'[t].pypy_stm_nursery_low_fill_mark = UNLIMITED
                        /\ th'[t].pypy_stm_nursery_low_fill_mark_saved =
                               IF th[t].pypy_stm_nursery_low_fill_mark_saved > 0
                               THEN 0
                               ELSE th[t].pypy_stm_nursery_low_fill_mark_saved]_vars

\* C18 witness: an atomic thread, the length configured, whose saved mark
\* is 0 after a commit-soon request while its mark in use is unlimited
C18_Witness ==
    \E t \in Threads :
        /\ th[t].pypy_stm_ready_atomic >= 2
        /\ th[t].pypy_stm_nursery_low_fill_mark = UNLIMITED
        /\ th[t].pypy_stm_nursery_low_fill_mark_saved = 0
        /\ th[t].pc = "py" /\ pypy_transaction_length > 0

\* C19: _pypy_stm_become_inevitable replaces the slot b in use (the low fill
\* mark of a thread that is not atomic, the saved mark of an atomic one) by
\* _stm_nursery_start + floor((b - _stm_nursery_start) / 4), leaves the
\* other slot and the atomic count, and makes the transaction inevitable; a
\* slot at or above _stm_nursery_start does not grow, and a slot that was 0
\* stays below _stm_nursery_start.
C19_EscalateQuarters ==
    [][\A t \in Threads :
        Escalate(t)
            => LET a == th[t].pypy_stm_ready_atomic
                   m == th[t].pypy_stm_nursery_low_fill_mark
                   v == th[t].pypy_stm_nursery_low_fill_mark_saved
                   b == IF a = 1 THEN m ELSE v
                   q == IF a = 1
                        THEN th'[t].pypy_stm_nursery_low_fill_mark
                        ELSE th'[t].pypy_stm_nursery_low_fill_mark_saved
               IN  /\ th'[t].pypy_stm_ready_atomic = a
                   /\ IsInevitable(th'[t])
                   /\ 4 * (q - _stm_nursery_start) <= b - _stm_nursery_start
                   /\ b - _stm_nursery_start < 4 * (q - _stm_nursery_start) + 4
                   /\ a = 1 => th'[t].pypy_stm_nursery_low_fill_mark_saved = v
                   /\ a >= 2 => th'[t].pypy_stm_nursery_low_fill_mark = m
                   /\ b >= _stm_nursery_start => q <= b
                   /\ b = 0 => q < _stm_nursery_start]_vars

\* C19 witness: a transaction of the loop whose low fill mark a commit-soon
\* request had set to 0 has been escalated
C19_Witness ==
    \E t \in Threads :
        /\ th[t].pc = "work" /\ IsInevitable(th[t])
        /\ th[t].pypy_stm_ready_atomic = 1
        /\ th[t].pypy_stm_nursery_low_fill_mark
               = _stm_nursery_start - (_stm_nursery_start \div 4)

\* C20: the assertion pypy_transaction_length >= 0 of the first-time path of
\* pypy_stm_enter_callback_call never fails: no thread that is not yet
\* registered enters while the length is the negative one pypy_stm_setup
\* wrote.
C20_FirstEnterAssertHolds ==
    [][\A t \in Threads :
        (EnterCallback(t) /\ th[t].pypy_stm_ready_atomic = 0)
            => /\ pypy_transaction_length >= 0
               /\ ~th'[t].failed]_vars

====
